---- MODULE Spec2Model ----
(***************************************************************************)
(* Connection tracking of the eBPF sidecar (coding/rust/ebpf-sidecar).     *)
(*                                                                         *)
(* Spec      the kernel probes of sidecar-ebpf/src/main.rs, one action per *)
(*           probe invocation, over the CONNECTIONS table and the CONFIG   *)
(*           slot.                                                         *)
(* SpecRace  the in-place mutators (tcp_sendmsg, tcp_recvmsg, retransmit)  *)
(*           running on two CPUs against one tracked entry, one action per *)
(*           load or store of a field.                                     *)
(* SpecMain  main() of sidecar/src/main.rs: startup, the collection loop   *)
(*           and the metrics server, with the attached probes firing.      *)
(* SpecAggregate  aggregate_by_destination of sidecar/src/metrics.rs over  *)
(*           bounded inputs, one action per record folded.                 *)
(* SpecLayout  the #[repr(C)] layout of the records of sidecar-common,     *)
(*           one action per field placed.                                  *)
(*                                                                         *)
(* Counters are u64/u32 in the source; every value reached here is far     *)
(* below the wrap, so they are modelled as naturals.                       *)
(***************************************************************************)
EXTENDS Integers, Sequences, FiniteSets, TLC

VARIABLES
    connections,  \* CONNECTIONS: ConnKey -> ConnMetrics, the keys present
    config,       \* CONFIG[0]: {} while never written, else {SidecarConfig}
    now,          \* bpf_ktime_get_ns(): monotonic nanoseconds
    last,         \* the last probe invocation: program, derived key, status, close log
    hist,         \* per connection: the sends observed since its tracked connect
    cpu,          \* SpecRace: per CPU, the position of the running probe
    ran,          \* SpecRace: what the probes started so far ask for
    at,           \* SpecMain: where main() is
    failedAt,     \* SpecMain: the startup step whose error main() returned with
    attached,     \* SpecMain: the probe programs attached to their hooks
    server,       \* SpecMain: the metrics server task has been spawned
    registry,     \* SpecMain: the process-wide Prometheus registry
    iter,         \* SpecMain: the collection cycle in flight
    cycles,       \* SpecMain: collection cycles started
    lastCycle,    \* SpecMain: how the last collection cycle ended
    sigint,       \* SpecMain: a Ctrl+C the loop has still to see
    served,       \* SpecMain: the last /metrics body and whether it followed another,
                  \*           {} once a cycle has run since
    sys,          \* SpecMain: what the process has obtained from the kernel: the
                  \*           memlock limit, the loaded object, the loaded programs
    delivered,    \* SpecMain: a Ctrl+C was delivered to the process while in the loop
    records,      \* SpecAggregate: the records handed to aggregate_by_destination
    pos,          \* SpecAggregate: records folded so far
    aggregated,   \* SpecAggregate: the map being built
    layout        \* SpecLayout: the record being laid out

kernelVars == <<connections, config, now, last, hist, cpu, ran>>

mainVars ==
    <<at, failedAt, attached, server, registry, iter, cycles, lastCycle, sigint, served, sys,
      delivered>>

aggVars == <<records, pos, aggregated>>

layoutVars == <<layout>>

vars == <<kernelVars, mainVars, aggVars, layoutVars>>

----------------------------------------------------------------------------
(* Bounds *)

\* Most sends, receives and retransmits counted in the table at one time.
MaxEvents == 2
\* The clock takes the values 0, TickNs, ..., MaxTicks * TickNs.
MaxTicks == 1
\* SpecRace: probe invocations started per CPU.
MaxInvocations == 1

\* duration_ns / 1_000_000 in the close log.
NS_PER_MS == 1000000

\* One step of the clock: a millisecond and a half.
TickNs == NS_PER_MS + NS_PER_MS \div 2

Pids == {1, 2}
Sizes == {500, 1000}
CPUs == {1, 2}

----------------------------------------------------------------------------
(* Shared layout and the kernel objects the probes read *)

\* An IPv4 address a.b.c.d as the u32 a little-endian load of its
\* network-order bytes yields.
Ip(a, b, c, d) == a + b * 256 + c * 65536 + d * 16777216

\* The live connections of the host: addresses as stored, ports in host order.
Conns ==
    { [saddr |-> Ip(10, 0, 0, 1), daddr |-> Ip(93, 184, 216, 34), sport |-> 5000, dport |-> 443],
      [saddr |-> Ip(10, 0, 0, 1), daddr |-> Ip(93, 184, 216, 34), sport |-> 5001, dport |-> 443] }

\* Capacity of CONNECTIONS. The source gives with_max_entries(10240); here the
\* table holds one connection fewer than the host has, so that it can be full
\* when a further connection starts.
MAX_ENTRIES == Cardinality(Conns) - 1

Swap16(x) == (x % 256) * 256 + (x \div 256)

\* u16::from_be on the bpfel (little-endian) target.
FromBe16(x) == Swap16(x)

\* struct sock -> __sk_common of connection c: skc_dport is in network order.
SockOf(c) ==
    [skc_daddr |-> c.daddr, skc_rcv_saddr |-> c.saddr,
     skc_dport |-> Swap16(c.dport), skc_num |-> c.sport]

\* tcp:tcp_retransmit_skb record of connection c: ports in host order.
TraceRecOf(c) ==
    [saddr |-> c.saddr, daddr |-> c.daddr, sport |-> c.sport, dport |-> c.dport]

ConnKey(src_ip, dst_ip, src_port, dst_port) ==
    [src_ip |-> src_ip, dst_ip |-> dst_ip, src_port |-> src_port, dst_port |-> dst_port]

\* The 4-tuple of connection c as the table is meant to key it.
KeyOf(c) == ConnKey(c.saddr, c.daddr, c.sport, c.dport)

\* One connection stands for the socket of a failed read: nothing of it is used.
AnyConn == CHOOSE c \in Conns : TRUE

\* The raw reads that fault in the inputs: the first and the last of the four.
FailPoints == {1, 4}

\* ctx.arg(0): absent, or a pointer whose failAt-th raw read faults (0: none).
SockArgs ==
    {[present |-> FALSE, failAt |-> 0, mem |-> SockOf(AnyConn)]}
    \cup { [present |-> TRUE, failAt |-> f, mem |-> SockOf(AnyConn)] : f \in FailPoints }
    \cup { [present |-> TRUE, failAt |-> 0, mem |-> SockOf(c)] : c \in Conns }

GoodSock(c) == [present |-> TRUE, failAt |-> 0, mem |-> SockOf(c)]

\* ctx.arg(2) of tcp_sendmsg: absent ({}) or the size.
SizeArgs == {{}} \cup { {s} : s \in Sizes }

\* The trace record handed to the tracepoint; failAt as above.
TraceArgs ==
    { [failAt |-> f, rec |-> TraceRecOf(AnyConn)] : f \in FailPoints }
    \cup { [failAt |-> 0, rec |-> TraceRecOf(c)] : c \in Conns }

GoodTrace(c) == [failAt |-> 0, rec |-> TraceRecOf(c)]

\* ctx.ret() of the tcp_recvmsg return probe: absent ({}) or the value.
RetArgs == {{}} \cup { {r} : r \in {-1, 0, 1000} }

The(s) == CHOOSE x \in s : TRUE

----------------------------------------------------------------------------
(* Helper functions of the probe program *)

\* should_trace under SidecarConfig cfg with no pid check at all.
should_trace_any(pid) == TRUE

\* should_trace that compares the pid even when target_pid is the wildcard 0.
should_trace_no_wildcard(pid) ==
    IF config = {} THEN TRUE ELSE pid = The(config).target_pid

\* should_trace that traces nothing while the slot holds no value.
should_trace_unset_none(pid) ==
    IF config = {}
    THEN FALSE
    ELSE IF The(config).target_pid # 0 /\ pid # The(config).target_pid
         THEN FALSE
         ELSE TRUE

\* should_trace: ctx gives the pid (tgid) of the current task.
should_trace(pid) ==
    IF config = {}
    THEN TRUE
    ELSE IF The(config).target_pid # 0 /\ pid # The(config).target_pid
         THEN FALSE
         ELSE TRUE

\* read_conn_key_from_sock with a failed read taken as 0 (unwrap_or(0)).
read_conn_key_from_sock_zeroed(sock) ==
    [err |-> 0,
     key |-> {ConnKey(IF sock.failAt = 1 THEN 0 ELSE sock.mem.skc_rcv_saddr,
                      IF sock.failAt = 2 THEN 0 ELSE sock.mem.skc_daddr,
                      IF sock.failAt = 3 THEN 0 ELSE sock.mem.skc_num,
                      IF sock.failAt = 4 THEN 0 ELSE FromBe16(sock.mem.skc_dport))}]

\* read_conn_key_from_sock: four raw reads, the i-th failing with Err(i).
read_conn_key_from_sock(sock) ==
    IF sock.failAt # 0
    THEN [err |-> sock.failAt, key |-> {}]
    ELSE [err |-> 0,
          key |-> {ConnKey(sock.mem.skc_rcv_saddr, sock.mem.skc_daddr,
                           sock.mem.skc_num, FromBe16(sock.mem.skc_dport))}]

\* The ConnMetrics literal of try_trace_tcp_connect with last_seen_ns left 0.
FreshMetricsZeroSeen(t) ==
    [bytes_sent |-> 0, bytes_recv |-> 0, packets_sent |-> 0, packets_recv |-> 0,
     start_ns |-> t, last_seen_ns |-> 0, retransmits |-> 0]

\* The ConnMetrics literal of try_trace_tcp_connect.
FreshMetrics(t) ==
    [bytes_sent |-> 0, bytes_recv |-> 0, packets_sent |-> 0, packets_recv |-> 0,
     start_ns |-> t, last_seen_ns |-> t, retransmits |-> 0]

\* An insert that leaves the record of a key already there as it is.
MapInsertKeepOld(table, key, value) ==
    IF key \in DOMAIN table THEN [err |-> 0, table |-> table]
    ELSE IF Cardinality(DOMAIN table) < MAX_ENTRIES
    THEN [err |-> 0, table |-> [k \in DOMAIN table \cup {key} |-> IF k = key THEN value ELSE table[k]]]
    ELSE [err |-> 1, table |-> table]

\* CONNECTIONS.insert(&key, &value, 0) on a hash map of MAX_ENTRIES entries:
\* an existing key is replaced, a new key is refused once the table is full.
MapInsert(table, key, value) ==
    IF key \in DOMAIN table \/ Cardinality(DOMAIN table) < MAX_ENTRIES
    THEN [err |-> 0,
          table |-> [k \in DOMAIN table \cup {key} |-> IF k = key THEN value ELSE table[k]]]
    ELSE [err |-> 1, table |-> table]

\* CONNECTIONS.remove(&key), its result dropped.
MapRemove(table, key) == [k \in (DOMAIN table) \ {key} |-> table[k]]

\* The send update with bytes_sent assigned instead of accumulated.
SendUpdateAssign(m, size, t) ==
    [m EXCEPT !.bytes_sent = size, !.packets_sent = @ + 1, !.last_seen_ns = t]

\* try_trace_tcp_sendmsg, the update through the mutable handle.
SendUpdate(m, size, t) ==
    [m EXCEPT !.bytes_sent = @ + size, !.packets_sent = @ + 1, !.last_seen_ns = t]

\* The receive update with a byte count added to bytes_recv.
RecvUpdateCountBytes(m, t) ==
    [m EXCEPT !.bytes_recv = @ + 1000, !.packets_recv = @ + 1, !.last_seen_ns = t]

\* try_trace_tcp_recvmsg, the update through the mutable handle.
RecvUpdate(m, t) ==
    [m EXCEPT !.packets_recv = @ + 1, !.last_seen_ns = t]

\* The retransmit update that also touches last_seen_ns, as send and receive do.
RetransmitUpdateTouch(m, t) ==
    [m EXCEPT !.retransmits = @ + 1, !.last_seen_ns = t]

\* try_trace_tcp_retransmit, the update through the mutable handle.
RetransmitUpdate(m, t) ==
    [m EXCEPT !.retransmits = @ + 1]

\* The close duration measured from the last activity instead of the start.
CloseDurationFromLastSeen(m, t) == t - m.last_seen_ns

\* try_trace_tcp_close: duration_ns of the final log line.
CloseDuration(m, t) == t - m.start_ns

----------------------------------------------------------------------------
(* The probe bodies: each yields the Result code (0 for Ok), the key it       *)
(* derived ({} when it returned before deriving one) and the table it leaves. *)

\* try_trace_tcp_connect with the result of the insert dropped.
try_trace_tcp_connect_ignore_insert(pid, sock) ==
    IF ~should_trace(pid) THEN [err |-> 0, key |-> {}, table |-> connections]
    ELSE IF ~sock.present THEN [err |-> 1, key |-> {}, table |-> connections]
    ELSE LET rd == read_conn_key_from_sock(sock) IN
         IF rd.err # 0 THEN [err |-> rd.err, key |-> {}, table |-> connections]
         ELSE LET ins == MapInsert(connections, The(rd.key), FreshMetrics(now)) IN
              [err |-> 0, key |-> rd.key, table |-> ins.table]

try_trace_tcp_connect(pid, sock) ==
    IF ~should_trace(pid) THEN [err |-> 0, key |-> {}, table |-> connections]
    ELSE IF ~sock.present THEN [err |-> 1, key |-> {}, table |-> connections]
    ELSE LET rd == read_conn_key_from_sock(sock) IN
         IF rd.err # 0 THEN [err |-> rd.err, key |-> {}, table |-> connections]
         ELSE LET ins == MapInsert(connections, The(rd.key), FreshMetrics(now)) IN
              [err |-> ins.err, key |-> rd.key, table |-> ins.table]

\* try_trace_tcp_sendmsg that inserts a record when the lookup finds none.
try_trace_tcp_sendmsg_upsert(pid, sock, size) ==
    IF ~should_trace(pid) THEN [err |-> 0, key |-> {}, table |-> connections]
    ELSE IF ~sock.present THEN [err |-> 1, key |-> {}, table |-> connections]
    ELSE IF size = {} THEN [err |-> 2, key |-> {}, table |-> connections]
    ELSE LET rd == read_conn_key_from_sock(sock) IN
         IF rd.err # 0 THEN [err |-> rd.err, key |-> {}, table |-> connections]
         ELSE LET k == The(rd.key) IN
              IF k \in DOMAIN connections
              THEN [err |-> 0, key |-> rd.key,
                    table |-> [connections EXCEPT ![k] = SendUpdate(@, The(size), now)]]
              ELSE [err |-> 0, key |-> rd.key,
                    table |-> MapInsert(connections, k,
                                        SendUpdate(FreshMetrics(now), The(size), now)).table]

try_trace_tcp_sendmsg(pid, sock, size) ==
    IF ~should_trace(pid) THEN [err |-> 0, key |-> {}, table |-> connections]
    ELSE IF ~sock.present THEN [err |-> 1, key |-> {}, table |-> connections]
    ELSE IF size = {} THEN [err |-> 2, key |-> {}, table |-> connections]
    ELSE LET rd == read_conn_key_from_sock(sock) IN
         IF rd.err # 0 THEN [err |-> rd.err, key |-> {}, table |-> connections]
         ELSE LET k == The(rd.key) IN
              IF k \in DOMAIN connections
              THEN [err |-> 0, key |-> rd.key,
                    table |-> [connections EXCEPT ![k] = SendUpdate(@, The(size), now)]]
              ELSE [err |-> 0, key |-> rd.key, table |-> connections]

\* try_trace_tcp_recvmsg without the trace filter, as close and retransmit are.
try_trace_tcp_recvmsg_unfiltered(pid, sock) ==
    IF ~sock.present THEN [err |-> 1, key |-> {}, table |-> connections]
    ELSE LET rd == read_conn_key_from_sock(sock) IN
         IF rd.err # 0 THEN [err |-> rd.err, key |-> {}, table |-> connections]
         ELSE LET k == The(rd.key) IN
              IF k \in DOMAIN connections
              THEN [err |-> 0, key |-> rd.key,
                    table |-> [connections EXCEPT ![k] = RecvUpdate(@, now)]]
              ELSE [err |-> 0, key |-> rd.key, table |-> connections]

try_trace_tcp_recvmsg(pid, sock) ==
    IF ~should_trace(pid) THEN [err |-> 0, key |-> {}, table |-> connections]
    ELSE IF ~sock.present THEN [err |-> 1, key |-> {}, table |-> connections]
    ELSE LET rd == read_conn_key_from_sock(sock) IN
         IF rd.err # 0 THEN [err |-> rd.err, key |-> {}, table |-> connections]
         ELSE LET k == The(rd.key) IN
              IF k \in DOMAIN connections
              THEN [err |-> 0, key |-> rd.key,
                    table |-> [connections EXCEPT ![k] = RecvUpdate(@, now)]]
              ELSE [err |-> 0, key |-> rd.key, table |-> connections]

\* try_trace_tcp_recvmsg_ret: the return value is read and nothing is recorded.
try_trace_tcp_recvmsg_ret(ret) ==
    IF ret = {} THEN [err |-> 1, key |-> {}, table |-> connections]
    ELSE IF The(ret) <= 0 THEN [err |-> 0, key |-> {}, table |-> connections]
    ELSE [err |-> 0, key |-> {}, table |-> connections]

\* try_trace_tcp_close behind the trace filter the other kprobes apply.
try_trace_tcp_close_filtered(pid, sock) ==
    IF ~should_trace(pid)
    THEN [err |-> 0, key |-> {}, table |-> connections, snap |-> {}, duration_ns |-> 0]
    ELSE IF ~sock.present
    THEN [err |-> 1, key |-> {}, table |-> connections, snap |-> {}, duration_ns |-> 0]
    ELSE LET rd == read_conn_key_from_sock(sock) IN
         IF rd.err # 0
         THEN [err |-> rd.err, key |-> {}, table |-> connections, snap |-> {}, duration_ns |-> 0]
         ELSE LET k == The(rd.key) IN
              [err |-> 0, key |-> rd.key, table |-> MapRemove(connections, k),
               snap |-> IF k \in DOMAIN connections THEN {connections[k]} ELSE {},
               duration_ns |-> IF k \in DOMAIN connections
                               THEN CloseDuration(connections[k], now) ELSE 0]

\* try_trace_tcp_close: pid is the task it runs in, which it never asks for.
\* snap is the record CONNECTIONS.get returned, duration_ns what it logs from.
try_trace_tcp_close(pid, sock) ==
    IF ~sock.present
    THEN [err |-> 1, key |-> {}, table |-> connections, snap |-> {}, duration_ns |-> 0]
    ELSE LET rd == read_conn_key_from_sock(sock) IN
         IF rd.err # 0
         THEN [err |-> rd.err, key |-> {}, table |-> connections, snap |-> {}, duration_ns |-> 0]
         ELSE LET k == The(rd.key) IN
              [err |-> 0, key |-> rd.key, table |-> MapRemove(connections, k),
               snap |-> IF k \in DOMAIN connections THEN {connections[k]} ELSE {},
               duration_ns |-> IF k \in DOMAIN connections
                               THEN CloseDuration(connections[k], now) ELSE 0]

\* try_trace_tcp_retransmit: the key comes from the trace record, read_at
\* failing at the failAt-th field.
try_trace_tcp_retransmit(tp) ==
    IF tp.failAt # 0 THEN [err |-> 1, key |-> {}, table |-> connections]
    ELSE LET k == ConnKey(tp.rec.saddr, tp.rec.daddr, tp.rec.sport, tp.rec.dport) IN
         IF k \in DOMAIN connections
         THEN [err |-> 0, key |-> {k},
               table |-> [connections EXCEPT ![k] = RetransmitUpdate(@, now)]]
         ELSE [err |-> 0, key |-> {k}, table |-> connections]

----------------------------------------------------------------------------
(* Userspace: the configuration written into CONFIG[0] *)

\* The resolved options configure_sidecar is given (Args.pid, Args.ports, Args.debug):
\* --ports is absent ({}) or a list ({<<80>>}).
ArgsChoices ==
    { [pid |-> p, ports |-> {}, debug |-> FALSE] : p \in {0, 1} }
    \cup { [pid |-> 0, ports |-> {<<80>>}, debug |-> FALSE] }

Min(a, b) == IF a < b THEN a ELSE b

\* configure_sidecar: the SidecarConfig it builds from the options.
configure_sidecar(args) ==
    [target_pid |-> args.pid,
     target_cgroup |-> 0,
     target_ports |-> [i \in 1..8 |->
                         IF args.ports # {} /\ i <= Len(The(args.ports))
                         THEN The(args.ports)[i] ELSE 0],
     num_target_ports |-> IF args.ports = {} THEN 0 ELSE Min(Len(The(args.ports)), 8),
     enable_http |-> 0,
     debug_mode |-> IF args.debug THEN 1 ELSE 0]

----------------------------------------------------------------------------
(* What is observed of an invocation, and the history the claims speak of *)

\* The u32 a #[kprobe] / #[tracepoint] entry point returns for a Result code.
Status(err) == IF err = 0 THEN 0 ELSE 1

NoProbe ==
    [op |-> "none", key |-> {}, ret |-> 0, snap |-> {}, duration_ns |-> 0, dur_ms |-> 0,
     outside |-> FALSE]

Observed(op, r) ==
    [op |-> op, key |-> r.key, ret |-> Status(r.err),
     snap |-> {}, duration_ns |-> 0, dur_ms |-> 0, outside |-> FALSE]

\* The close log: the record read before the removal and the duration printed.
\* outside tells a close that ran in a task the trace filter does not select.
ObservedClose(pid, r) ==
    [op |-> "close", key |-> r.key, ret |-> Status(r.err),
     snap |-> r.snap, duration_ns |-> r.duration_ns,
     dur_ms |-> r.duration_ns \div NS_PER_MS,
     outside |-> (config # {} /\ The(config).target_pid \notin {0, pid})]

EmptyTable == [k \in {} |-> 0]

ConnOfSock(sock) == The({c \in Conns : SockOf(c) = sock.mem})

ConnOfTrace(tp) == The({c \in Conns : TraceRecOf(c) = tp.rec})

\* The trace filter as the configuration channel defines it: no value or the
\* wildcard 0 traces every process, any other value only that process.
PassesFilter(pid) ==
    config = {} \/ The(config).target_pid = 0 \/ The(config).target_pid = pid

\* The table can take key: it holds it already or has room.
HasRoomFor(key) ==
    key \in DOMAIN connections \/ Cardinality(DOMAIN connections) < MAX_ENTRIES

RECURSIVE EventsIn(_, _)
EventsIn(table, keys) ==
    IF keys = {} THEN 0
    ELSE LET k == CHOOSE x \in keys : TRUE IN
         table[k].packets_sent + table[k].packets_recv + table[k].retransmits
         + EventsIn(table, keys \ {k})

\* The events counted in the table stay within MaxEvents.
InBounds(table) == EventsIn(table, DOMAIN table) <= MaxEvents

IdleCpus == [i \in CPUs |-> [pc |-> "idle", size |-> 0, tmp |-> 0, left |-> 0]]

NothingRan ==
    [base |-> FreshMetrics(0), sends |-> 0, bytes |-> 0, recvs |-> 0, retx |-> 0,
     overlap |-> FALSE]

----------------------------------------------------------------------------
(* Userspace state while only the kernel side is looked at *)

\* The registry before any metric is registered.
EmptyRegistry == [children |-> EmptyTable, active |-> {}]

\* No collection cycle in flight.
NoIter == [todo |-> {}, count |-> 0, seen |-> EmptyTable, start |-> EmptyRegistry]

NoCycle == [n |-> 0, result |-> "none"]

\* A process that has asked the kernel for nothing yet.
NoSys == [memlock |-> "default", object |-> FALSE, loaded |-> {}]

MainIdle(where) ==
    /\ at = where
    /\ failedAt = "none"
    /\ attached = {}
    /\ server = FALSE
    /\ registry = EmptyRegistry
    /\ iter = NoIter
    /\ cycles = 0
    /\ lastCycle = NoCycle
    /\ sigint = FALSE
    /\ served = {}
    /\ sys = NoSys
    /\ delivered = FALSE

AggIdle ==
    /\ records = <<>>
    /\ pos = 0
    /\ aggregated = EmptyTable

\* A record layout before its first field: nothing placed, alignment 1.
LayoutStart == [offset |-> 0, align |-> 1, declared |-> 0]

\* No record is being laid out.
LayoutIdle ==
    layout = [name |-> "none", fields |-> <<>>, placed |-> 0, sofar |-> LayoutStart, size |-> {}]

----------------------------------------------------------------------------
(* Spec: one action per probe invocation *)

Init ==
    /\ connections = EmptyTable
    /\ config = {}
    /\ now = 0
    /\ last = NoProbe
    /\ hist = [c \in Conns |-> {}]
    /\ cpu = IdleCpus
    /\ ran = NothingRan
    /\ MainIdle("off")
    /\ AggIdle
    /\ LayoutIdle

\* bpf_ktime_get_ns advances between invocations.
Tick ==
    /\ now + TickNs <= MaxTicks * TickNs
    /\ now' = now + TickNs
    /\ UNCHANGED <<connections, config, last, hist, cpu, ran, mainVars, aggVars, layoutVars>>

\* configure_sidecar: config_map.set(0, config, 0).
SetConfig(args) ==
    /\ config' = {configure_sidecar(args)}
    /\ UNCHANGED <<connections, now, last, hist, cpu, ran, mainVars, aggVars, layoutVars>>

trace_tcp_connect(pid, sock) ==
    LET r == try_trace_tcp_connect(pid, sock)
        c == ConnOfSock(sock)
    IN  /\ connections' = r.table
        /\ last' = Observed("connect", r)
        /\ hist' = IF PassesFilter(pid) /\ sock.present /\ sock.failAt = 0
                      /\ HasRoomFor(KeyOf(c))
                   THEN [hist EXCEPT ![c] = {[sum |-> 0, n |-> 0, t0 |-> now]}]
                   ELSE hist
        /\ UNCHANGED <<config, now, cpu, ran, mainVars, aggVars, layoutVars>>

trace_tcp_sendmsg(pid, sock, size) ==
    LET r == try_trace_tcp_sendmsg(pid, sock, size)
        c == ConnOfSock(sock)
    IN  /\ InBounds(r.table)
        /\ connections' = r.table
        /\ last' = Observed("send", r)
        /\ hist' = IF PassesFilter(pid) /\ sock.present /\ sock.failAt = 0
                      /\ size # {} /\ hist[c] # {}
                   THEN [hist EXCEPT ![c] =
                            {[sum |-> The(@).sum + The(size), n |-> The(@).n + 1,
                              t0 |-> The(@).t0]}]
                   ELSE hist
        /\ UNCHANGED <<config, now, cpu, ran, mainVars, aggVars, layoutVars>>

trace_tcp_recvmsg(pid, sock) ==
    LET r == try_trace_tcp_recvmsg(pid, sock)
    IN  /\ InBounds(r.table)
        /\ connections' = r.table
        /\ last' = Observed("recv", r)
        /\ UNCHANGED <<config, now, hist, cpu, ran, mainVars, aggVars, layoutVars>>

trace_tcp_recvmsg_ret(ret) ==
    LET r == try_trace_tcp_recvmsg_ret(ret)
    IN  /\ connections' = r.table
        /\ last' = Observed("recv_ret", r)
        /\ UNCHANGED <<config, now, hist, cpu, ran, mainVars, aggVars, layoutVars>>

trace_tcp_close(pid, sock) ==
    LET r == try_trace_tcp_close(pid, sock)
        c == ConnOfSock(sock)
    IN  /\ connections' = r.table
        /\ last' = ObservedClose(pid, r)
        /\ hist' = IF sock.present /\ sock.failAt = 0
                   THEN [hist EXCEPT ![c] = {}]
                   ELSE hist
        /\ UNCHANGED <<config, now, cpu, ran, mainVars, aggVars, layoutVars>>

trace_tcp_retransmit(tp) ==
    LET r == try_trace_tcp_retransmit(tp)
    IN  /\ InBounds(r.table)
        /\ connections' = r.table
        /\ last' = Observed("retransmit", r)
        /\ UNCHANGED <<config, now, hist, cpu, ran, mainVars, aggVars, layoutVars>>

Next ==
    \/ Tick
    \/ \E args \in ArgsChoices : SetConfig(args)
    \/ \E pid \in Pids, sock \in SockArgs : trace_tcp_connect(pid, sock)
    \/ \E pid \in Pids, sock \in SockArgs, size \in SizeArgs : trace_tcp_sendmsg(pid, sock, size)
    \/ \E pid \in Pids, sock \in SockArgs : trace_tcp_recvmsg(pid, sock)
    \/ \E ret \in RetArgs : trace_tcp_recvmsg_ret(ret)
    \/ \E pid \in Pids, sock \in SockArgs : trace_tcp_close(pid, sock)
    \/ \E tp \in TraceArgs : trace_tcp_retransmit(tp)

Spec == Init /\ [][Next]_vars

----------------------------------------------------------------------------
(* SpecRace: send, receive and retransmit probes on two CPUs, each holding   *)
(* the pointer get_ptr_mut gave it to the one tracked entry, one action per  *)
(* load, store or clock read of the statements that update the record.       *)

RaceConn == AnyConn

RaceKey == KeyOf(RaceConn)

\* The record the racing probes find: fresh, or with traffic already counted.
RaceInitial ==
    { FreshMetrics(0),
      RecvUpdate(SendUpdate(FreshMetrics(0), 500, 0), 0) }

RaceOps == {"send", "recv", "retx"}

\* The first access of each probe's update block.
FirstPc(op) ==
    CASE op = "send" -> "send_ld_bytes"
      [] op = "recv" -> "recv_ld_pkts"
      [] op = "retx" -> "retx_ld"

LoadPcs == {"send_ld_bytes", "send_ld_pkts", "recv_ld_pkts", "retx_ld"}

StorePcs == {"send_st_bytes", "send_st_pkts", "send_st_seen",
             "recv_st_pkts", "recv_st_seen", "retx_st"}

ClockPcs == {"send_clock", "recv_clock"}

NextPc(pc) ==
    CASE pc = "send_ld_bytes" -> "send_st_bytes"
      [] pc = "send_st_bytes" -> "send_ld_pkts"
      [] pc = "send_ld_pkts"  -> "send_st_pkts"
      [] pc = "send_st_pkts"  -> "send_clock"
      [] pc = "send_clock"    -> "send_st_seen"
      [] pc = "send_st_seen"  -> "idle"
      [] pc = "recv_ld_pkts"  -> "recv_st_pkts"
      [] pc = "recv_st_pkts"  -> "recv_clock"
      [] pc = "recv_clock"    -> "recv_st_seen"
      [] pc = "recv_st_seen"  -> "idle"
      [] pc = "retx_ld"       -> "retx_st"
      [] pc = "retx_st"       -> "idle"

\* The fields with the receive probe counting into packets_sent, as the send probe does.
FieldAtRecvIntoSent(pc) ==
    CASE pc \in {"send_ld_bytes", "send_st_bytes"} -> "bytes_sent"
      [] pc \in {"send_ld_pkts", "send_st_pkts"}   -> "packets_sent"
      [] pc \in {"recv_ld_pkts", "recv_st_pkts"}   -> "packets_sent"
      [] pc \in {"send_st_seen", "recv_st_seen"}   -> "last_seen_ns"
      [] pc \in {"retx_ld", "retx_st"}             -> "retransmits"

\* The field of ConnMetrics each access touches.
FieldAt(pc) ==
    CASE pc \in {"send_ld_bytes", "send_st_bytes"} -> "bytes_sent"
      [] pc \in {"send_ld_pkts", "send_st_pkts"}   -> "packets_sent"
      [] pc \in {"recv_ld_pkts", "recv_st_pkts"}   -> "packets_recv"
      [] pc \in {"send_st_seen", "recv_st_seen"}   -> "last_seen_ns"
      [] pc \in {"retx_ld", "retx_st"}             -> "retransmits"

\* The value a store writes, from the register the load or clock read filled.
StoreValue(c) ==
    CASE c.pc = "send_st_bytes" -> c.tmp + c.size
      [] c.pc \in {"send_st_pkts", "recv_st_pkts", "retx_st"} -> c.tmp + 1
      [] c.pc \in {"send_st_seen", "recv_st_seen"} -> c.tmp

RaceInit ==
    /\ \E m \in RaceInitial :
          /\ connections = [k \in {RaceKey} |-> m]
          /\ ran = [NothingRan EXCEPT !.base = m]
    /\ config = {}
    /\ now = 0
    /\ last = NoProbe
    /\ hist = [c \in Conns |-> {}]
    /\ cpu = [i \in CPUs |-> [pc |-> "idle", size |-> 0, tmp |-> 0, left |-> MaxInvocations]]
    /\ MainIdle("off")
    /\ AggIdle
    /\ LayoutIdle

\* A probe passes the filter, derives the key and gets the pointer to the record.
RaceStart(i, op, pid, size) ==
    /\ cpu[i].pc = "idle"
    /\ cpu[i].left > 0
    /\ op = "retx" \/ should_trace(pid)
    /\ LET key == IF op = "retx"
                  THEN try_trace_tcp_retransmit(GoodTrace(RaceConn)).key
                  ELSE read_conn_key_from_sock(GoodSock(RaceConn)).key
       IN  key # {} /\ The(key) = RaceKey /\ RaceKey \in DOMAIN connections
    /\ cpu' = [cpu EXCEPT ![i] = [pc |-> FirstPc(op),
                                  size |-> IF op = "send" THEN size ELSE 0,
                                  tmp |-> 0, left |-> @.left - 1]]
    /\ ran' = [ran EXCEPT
                 !.sends = @ + (IF op = "send" THEN 1 ELSE 0),
                 !.bytes = @ + (IF op = "send" THEN size ELSE 0),
                 !.recvs = @ + (IF op = "recv" THEN 1 ELSE 0),
                 !.retx = @ + (IF op = "retx" THEN 1 ELSE 0),
                 !.overlap = @ \/ \E j \in CPUs \ {i} : cpu[j].pc # "idle"]
    /\ UNCHANGED <<connections, config, now, last, hist, mainVars, aggVars, layoutVars>>

RaceLoad(i) ==
    /\ cpu[i].pc \in LoadPcs
    /\ cpu' = [cpu EXCEPT ![i].tmp = connections[RaceKey][FieldAt(cpu[i].pc)],
                          ![i].pc = NextPc(@)]
    /\ UNCHANGED <<connections, config, now, last, hist, ran, mainVars, aggVars, layoutVars>>

RaceStore(i) ==
    /\ cpu[i].pc \in StorePcs
    /\ connections' = [connections EXCEPT ![RaceKey][FieldAt(cpu[i].pc)] = StoreValue(cpu[i])]
    /\ cpu' = [cpu EXCEPT ![i].tmp = 0, ![i].size = IF NextPc(cpu[i].pc) = "idle" THEN 0 ELSE @,
                          ![i].pc = NextPc(@)]
    /\ UNCHANGED <<config, now, last, hist, ran, mainVars, aggVars, layoutVars>>

RaceClock(i) ==
    /\ cpu[i].pc \in ClockPcs
    /\ cpu' = [cpu EXCEPT ![i].tmp = now, ![i].pc = NextPc(@)]
    /\ UNCHANGED <<connections, config, now, last, hist, ran, mainVars, aggVars, layoutVars>>

RaceNext ==
    \/ Tick
    \/ \E i \in CPUs, op \in RaceOps, pid \in Pids, size \in Sizes : RaceStart(i, op, pid, size)
    \/ \E i \in CPUs : RaceLoad(i)
    \/ \E i \in CPUs : RaceStore(i)
    \/ \E i \in CPUs : RaceClock(i)

SpecRace == RaceInit /\ [][RaceNext]_vars

RaceQuiet == \A i \in CPUs : cpu[i].pc = "idle"

----------------------------------------------------------------------------
(* SpecMain: main() of the userspace loader, from the first startup step to  *)
(* the collection loop, with the metrics server answering requests and the   *)
(* attached probes firing in the kernel.                                     *)

\* Collection cycles started in one run.
MaxCycles == 2

\* duration_secs = (last_seen_ns - start_ns) / 1_000_000_000.
NS_PER_SEC == 1000000000

\* attach_programs: the four kprobes in the order of its array, then the tracepoint.
Programs ==
    <<"trace_tcp_connect", "trace_tcp_sendmsg", "trace_tcp_recvmsg", "trace_tcp_close",
      "trace_tcp_retransmit">>

AllPrograms == { Programs[i] : i \in 1..Len(Programs) }

\* u32::to_be on the little-endian host: the four bytes reversed.
Swap32(x) ==
    (x % 256) * 16777216 + ((x \div 256) % 256) * 65536
    + ((x \div 65536) % 256) * 256 + (x \div 16777216)

\* to_string of an unsigned number: its decimal digits.
RECURSIVE Decimal(_)
Decimal(n) == IF n < 10 THEN <<n>> ELSE Append(Decimal(n \div 10), n % 10)

\* Ipv4Addr::from(u).to_string(): the octets of u from the highest, in decimal.
Ipv4String(u) ==
    <<Decimal(u \div 16777216), Decimal((u \div 65536) % 256),
      Decimal((u \div 256) % 256), Decimal(u % 256)>>

\* The label values of a key: src_ip, dst_ip, dst_port.
LabelsOf(key) ==
    [src_ip |-> Ipv4String(Swap32(key.src_ip)),
     dst_ip |-> Ipv4String(Swap32(key.dst_ip)),
     dst_port |-> Decimal(key.dst_port)]

\* A child of the six vectors that no cycle has touched yet.
ZeroChild ==
    [bytes_sent |-> 0, bytes_recv |-> 0, packets_sent |-> 0, packets_recv |-> 0,
     retransmits |-> 0, duration_secs |-> [num |-> 0, den |-> NS_PER_SEC]]

\* The body of the loop of collect_and_export_metrics for one (key, metrics):
\* inc_by on the five counters, set on the gauge.
Export(reg, key, m) ==
    LET l == LabelsOf(key)
        old == IF l \in DOMAIN reg.children THEN reg.children[l] ELSE ZeroChild
        new == [bytes_sent |-> old.bytes_sent + m.bytes_sent,
                bytes_recv |-> old.bytes_recv + m.bytes_recv,
                packets_sent |-> old.packets_sent + m.packets_sent,
                packets_recv |-> old.packets_recv + m.packets_recv,
                retransmits |-> old.retransmits + m.retransmits,
                duration_secs |-> [num |-> m.last_seen_ns - m.start_ns, den |-> NS_PER_SEC]]
    IN  [reg EXCEPT !.children =
            [x \in (DOMAIN @) \cup {l} |-> IF x = l THEN new ELSE @[x]]]

\* The metric families in the order gather() returns them (by name), each with
\* the field of a child it exports.
Families ==
    <<[name |-> "sidecar_connection_bytes_received_total", field |-> "bytes_recv"],
      [name |-> "sidecar_connection_bytes_sent_total", field |-> "bytes_sent"],
      [name |-> "sidecar_connection_duration_seconds", field |-> "duration_secs"],
      [name |-> "sidecar_connection_packets_received_total", field |-> "packets_recv"],
      [name |-> "sidecar_connection_packets_sent_total", field |-> "packets_sent"],
      [name |-> "sidecar_connection_retransmits_total", field |-> "retransmits"]>>

\* TextEncoder over prometheus::gather(): the active-connections gauge once it
\* is registered, then per family the samples of its children.
Encode(reg) ==
    [active |-> reg.active,
     families |->
        IF DOMAIN reg.children = {} THEN <<>>
        ELSE [i \in 1..Len(Families) |->
                [name |-> Families[i].name,
                 samples |-> { [labels |-> l, value |-> reg.children[l][Families[i].field]] :
                               l \in DOMAIN reg.children }]]]

Paths == {"/metrics", "/health", "/favicon.ico"}

\* A request handler that clears the registry once it has encoded it.
handle_request_and_reset(path, reg) ==
    IF path = "/metrics"
    THEN [status |-> 200, body |-> {Encode(reg)}, registry |-> EmptyRegistry]
    ELSE IF path = "/health"
    THEN [status |-> 200, body |-> {}, registry |-> reg]
    ELSE [status |-> 404, body |-> {}, registry |-> reg]

\* The service function of run_metrics_server: the response, the body of
\* /metrics as encoded ({} for the fixed texts), and the registry it leaves.
handle_request(path, reg) ==
    IF path = "/metrics"
    THEN [status |-> 200, body |-> {Encode(reg)}, registry |-> reg]
    ELSE IF path = "/health"
    THEN [status |-> 200, body |-> {}, registry |-> reg]
    ELSE [status |-> 404, body |-> {}, registry |-> reg]

\* attach_programs that logs a failed attach and goes on to start the server.
attach_programs_tolerant(done, ok) ==
    IF ~ok
    THEN [at |-> "spawn", attached |-> done, failedAt |-> Programs[Cardinality(done) + 1]]
    ELSE [at |-> IF Cardinality(done) + 1 = Len(Programs) THEN "spawn" ELSE "attach",
          attached |-> done \cup {Programs[Cardinality(done) + 1]},
          failedAt |-> "none"]

\* attach_programs, one program per step: program_mut, load and attach, each
\* ending main() with its error; the Bpf object dropped on the way out takes
\* the programs attached so far with it.
attach_programs(done, ok) ==
    IF ~ok
    THEN [at |-> "failed", attached |-> {}, failedAt |-> Programs[Cardinality(done) + 1]]
    ELSE [at |-> IF Cardinality(done) + 1 = Len(Programs) THEN "spawn" ELSE "attach",
          attached |-> done \cup {Programs[Cardinality(done) + 1]},
          failedAt |-> "none"]

\* Where the loop goes after a cycle, were a failed cycle to end it.
AfterCycleStopOnError(result) == IF result = "err" THEN "failed" ELSE "select"

\* The loop of main() after collect_and_export_metrics returned: an Err is
\* logged and the loop goes round.
AfterCycle(result) == "select"

\* The ctrl_c branch of select!, were it taken while a cycle runs.
CanBreakMidCycle == at \in {"select", "collecting"} /\ sigint

\* The ctrl_c branch of select! is taken where main() awaits select!.
CanBreak == at = "select" /\ sigint

StartupSteps ==
    {"start", "load", "logger", "warn", "configure", "attach", "attaching", "spawn", "map"}

MainInit ==
    /\ connections = EmptyTable
    /\ config = {}
    /\ now = 0
    /\ last = NoProbe
    /\ hist = [c \in Conns |-> {}]
    /\ cpu = IdleCpus
    /\ ran = NothingRan
    /\ MainIdle("start")
    /\ AggIdle
    /\ LayoutIdle

\* The process ends: the links and maps of the dropped Bpf object go with
\* it, and so do the server task, the registry and the limits of the process.
ProcessEnds ==
    /\ attached' = {}
    /\ server' = FALSE
    /\ registry' = EmptyRegistry
    /\ connections' = EmptyTable
    /\ config' = {}
    /\ iter' = NoIter
    /\ sigint' = FALSE
    /\ served' = {}
    /\ sys' = NoSys
    /\ delivered' = FALSE

\* What a step of main() that goes on leaves alone besides its own effect.
ProcessStays == UNCHANGED <<attached, server, registry, connections, config, iter, sigint, served>>

\* main() returns Err from a startup step.
StartupFails(step) ==
    /\ at' = "failed"
    /\ failedAt' = step
    /\ ProcessEnds

\* setrlimit(RLIMIT_MEMLOCK, RLIM_INFINITY).
bump_memlock_rlimit ==
    /\ at = "start"
    /\ \E ok \in BOOLEAN :
          IF ok
          THEN /\ at' = "load"
               /\ sys' = [sys EXCEPT !.memlock = "infinity"]
               /\ UNCHANGED <<failedAt, delivered>>
               /\ ProcessStays
          ELSE StartupFails("memlock")
    /\ UNCHANGED <<now, last, hist, cpu, ran, cycles, lastCycle, aggVars, layoutVars>>

\* Bpf::load creates the maps: CONNECTIONS empty, CONFIG not written.
load_ebpf_program ==
    /\ at = "load"
    /\ \E ok \in BOOLEAN :
          IF ok
          THEN /\ at' = "logger"
               /\ sys' = [sys EXCEPT !.object = TRUE]
               /\ UNCHANGED <<failedAt, delivered>>
               /\ ProcessStays
          ELSE StartupFails("load")
    /\ UNCHANGED <<now, last, hist, cpu, ran, cycles, lastCycle, aggVars, layoutVars>>

\* Where main() goes after BpfLogger::init, were its error returned.
AfterLoggerFatal(ok) == IF ok THEN "configure" ELSE "failed"

\* Where main() goes after BpfLogger::init: into the body of the `if let
\* Err(e)` on a failure, past it otherwise.
AfterLogger(ok) == IF ok THEN "configure" ELSE "warn"

\* BpfLogger::init(&mut bpf).
InitLogger ==
    /\ at = "logger"
    /\ \E ok \in BOOLEAN : at' = AfterLogger(ok)
    /\ UNCHANGED <<kernelVars, failedAt, attached, server, registry, iter, cycles,
                   lastCycle, sigint, served, sys, delivered, aggVars, layoutVars>>

\* warn!("Failed to initialize eBPF logger: ..."): a warning only.
LoggerWarn ==
    /\ at = "warn"
    /\ at' = "configure"
    /\ UNCHANGED <<kernelVars, failedAt, attached, server, registry, iter, cycles,
                   lastCycle, sigint, served, sys, delivered, aggVars, layoutVars>>

Configure ==
    /\ at = "configure"
    /\ \E args \in ArgsChoices, ok \in BOOLEAN :
          IF ok
          THEN /\ config' = {configure_sidecar(args)}
               /\ at' = "attach"
               /\ UNCHANGED <<failedAt, attached, server, registry, connections, iter,
                              sigint, served, sys, delivered>>
          ELSE StartupFails("configure")
    /\ UNCHANGED <<now, last, hist, cpu, ran, cycles, lastCycle, aggVars, layoutVars>>

\* attach_programs, first half of a turn: program_mut, try_into and
\* program.load() of the next program, each ending main() with its error.
LoadProgram ==
    /\ at = "attach"
    /\ \E ok \in BOOLEAN :
          IF ok
          THEN /\ at' = "attaching"
               /\ sys' = [sys EXCEPT !.loaded = @ \cup {Programs[Cardinality(attached) + 1]}]
               /\ UNCHANGED <<failedAt, delivered>>
               /\ ProcessStays
          ELSE StartupFails("program_load")
    /\ UNCHANGED <<now, last, hist, cpu, ran, cycles, lastCycle, aggVars, layoutVars>>

\* attach_programs, second half of a turn: program.attach(..).
AttachNext ==
    /\ at = "attaching"
    /\ \E ok \in BOOLEAN :
          LET r == attach_programs(attached, ok)
          IN  /\ at' = r.at
              /\ failedAt' = r.failedAt
              /\ IF r.at = "failed"
                 THEN ProcessEnds
                 ELSE /\ attached' = r.attached
                      /\ UNCHANGED <<server, registry, connections, config, iter, sigint,
                                     served, sys, delivered>>
    /\ UNCHANGED <<now, last, hist, cpu, ran, cycles, lastCycle, aggVars, layoutVars>>

\* tokio::spawn(run_metrics_server(..)).
SpawnServer ==
    /\ at = "spawn"
    /\ server' = TRUE
    /\ at' = "map"
    /\ UNCHANGED <<kernelVars, failedAt, attached, registry, iter, cycles, lastCycle,
                   sigint, served, sys, delivered, aggVars, layoutVars>>

\* HashMap::try_from(bpf.map("CONNECTIONS")): the last step before the loop.
GetConnectionsMap ==
    /\ at = "map"
    /\ \E ok \in BOOLEAN :
          IF ok
          THEN at' = "select" /\ UNCHANGED <<failedAt, sys, delivered>> /\ ProcessStays
          ELSE StartupFails("map")
    /\ UNCHANGED <<now, last, hist, cpu, ran, cycles, lastCycle, aggVars, layoutVars>>

\* interval.tick() wins select!: collect_and_export_metrics is called and
\* connections.iter() starts over the keys of the table.  The ctrl_c()
\* future of this select! is dropped; whether a Ctrl+C it was already
\* notified of is still there for the next one is the signal library's.
StartCycle ==
    /\ at = "select"
    /\ cycles < MaxCycles
    /\ at' = "collecting"
    /\ cycles' = cycles + 1
    /\ iter' = [todo |-> DOMAIN connections, count |-> 0, seen |-> EmptyTable,
                start |-> registry]
    /\ served' = {}
    /\ \E kept \in (IF sigint THEN BOOLEAN ELSE {FALSE}) : sigint' = kept
    /\ UNCHANGED <<kernelVars, failedAt, attached, server, registry, lastCycle,
                   sys, delivered, aggVars, layoutVars>>

\* The iterator yields Ok((key, metrics)) and the loop body exports it; a key
\* removed since the iteration began is passed over.
CollectStep(k) ==
    /\ at = "collecting"
    /\ k \in iter.todo
    /\ IF k \in DOMAIN connections
       THEN /\ registry' = Export(registry, k, connections[k])
            /\ iter' = [iter EXCEPT !.todo = @ \ {k}, !.count = @ + 1,
                                    !.seen = [x \in (DOMAIN @) \cup {k} |->
                                                IF x = k THEN connections[k] ELSE @[x]]]
       ELSE /\ registry' = registry
            /\ iter' = [iter EXCEPT !.todo = @ \ {k}]
    /\ served' = {}
    /\ UNCHANGED <<kernelVars, at, failedAt, attached, server, cycles, lastCycle, sigint,
                   sys, delivered, aggVars, layoutVars>>

\* The iterator yields Err: `result?` returns it, main() logs it.
CollectFail ==
    /\ at = "collecting"
    /\ lastCycle' = [n |-> cycles, result |-> "err"]
    /\ at' = AfterCycle("err")
    /\ iter' = NoIter
    /\ served' = {}
    /\ UNCHANGED <<kernelVars, failedAt, attached, server, registry, cycles, sigint,
                   sys, delivered, aggVars, layoutVars>>

\* The iterator is exhausted: ACTIVE_CONNECTIONS.set(count), Ok(()).
CollectEnd ==
    /\ at = "collecting"
    /\ iter.todo = {}
    /\ registry' = [registry EXCEPT !.active = {iter.count}]
    /\ lastCycle' = [n |-> cycles, result |-> "ok"]
    /\ at' = AfterCycle("ok")
    /\ iter' = NoIter
    /\ served' = {}
    /\ UNCHANGED <<kernelVars, failedAt, attached, server, cycles, sigint,
                   sys, delivered, aggVars, layoutVars>>

\* Ctrl+C. Before the loop no handler is installed and the process ends; in
\* the loop the signal is kept for the ctrl_c() future, except that one
\* arriving while a cycle runs, when no such future exists, may be missed.
Signal ==
    /\ at \in StartupSteps \cup {"select", "collecting"}
    /\ IF at \in StartupSteps
       THEN at' = "killed" /\ ProcessEnds
       ELSE /\ \E kept \in (IF at = "collecting" THEN BOOLEAN ELSE {TRUE}) :
                  sigint' = (sigint \/ kept)
            /\ delivered' = TRUE
            /\ UNCHANGED <<at, attached, server, registry, connections, config, iter,
                           served, sys>>
    /\ UNCHANGED <<now, last, hist, cpu, ran, failedAt, cycles, lastCycle, aggVars, layoutVars>>

\* signal::ctrl_c() wins select!: break, "Sidecar stopped", Ok(()).
Break ==
    /\ CanBreak
    /\ at' = "stopped"
    /\ ProcessEnds
    /\ UNCHANGED <<now, last, hist, cpu, ran, failedAt, cycles, lastCycle, aggVars, layoutVars>>

\* The server task answers a request.
Serve(path) ==
    /\ server
    /\ LET r == handle_request(path, registry)
       IN  /\ registry' = r.registry
           /\ served' = IF path = "/metrics"
                        THEN {[body |-> The(r.body), again |-> served # {}]}
                        ELSE served
    /\ UNCHANGED <<kernelVars, at, failedAt, attached, server, iter, cycles, lastCycle,
                   sigint, sys, delivered, aggVars, layoutVars>>

\* The traffic of the host while the loader runs: outbound connections that
\* send and are closed.
Traffic == {"trace_tcp_connect", "trace_tcp_sendmsg", "trace_tcp_close"}

TrafficSizes == {500}

\* An attached program runs on its hook.
KernelEvent(prog, pid, c, size) ==
    /\ prog \in attached
    /\ LET table ==
             CASE prog = "trace_tcp_connect" -> try_trace_tcp_connect(pid, GoodSock(c)).table
               [] prog = "trace_tcp_sendmsg" ->
                    try_trace_tcp_sendmsg(pid, GoodSock(c), {size}).table
               [] prog = "trace_tcp_recvmsg" -> try_trace_tcp_recvmsg(pid, GoodSock(c)).table
               [] prog = "trace_tcp_close" -> try_trace_tcp_close(pid, GoodSock(c)).table
               [] prog = "trace_tcp_retransmit" -> try_trace_tcp_retransmit(GoodTrace(c)).table
       IN  /\ InBounds(table)
           /\ connections' = table
    /\ UNCHANGED <<config, now, last, hist, cpu, ran, mainVars, aggVars, layoutVars>>

MainNext ==
    \/ bump_memlock_rlimit
    \/ load_ebpf_program
    \/ InitLogger
    \/ LoggerWarn
    \/ Configure
    \/ LoadProgram
    \/ AttachNext
    \/ SpawnServer
    \/ GetConnectionsMap
    \/ StartCycle
    \/ \E c \in Conns : CollectStep(KeyOf(c))
    \/ CollectFail
    \/ CollectEnd
    \/ Signal
    \/ Break
    \/ \E path \in Paths : Serve(path)
    \/ \E prog \in Traffic, pid \in Pids, c \in Conns, size \in TrafficSizes :
          KernelEvent(prog, pid, c, size)

SpecMain == MainInit /\ [][MainNext]_vars

----------------------------------------------------------------------------
(* SpecAggregate: aggregate_by_destination of sidecar/src/metrics.rs.       *)
(*                                                                          *)
(* avg_duration_ms is an f64.  An f64 that is not negative is modelled as   *)
(* [m, e] with value m * 2^e, m an odd natural of at most 53 bits (or 0),   *)
(* and every operation is the exact result rounded to the nearest such      *)
(* value, ties to even, as IEEE 754 binary64 does.  The values reached are  *)
(* far from the ends of the exponent range.  Significands do not fit the    *)
(* integers of the checker, so they are sequences of digits.                *)

\* SpecAggregate: the longest input handed to aggregate_by_destination.
MaxRecords == 3

\* f64::MANTISSA_DIGITS: the bits of an f64 significand.
F64_MANTISSA_DIGITS == 53

\* Naturals of any size: the digits in base Base from the lowest, the highest
\* one not 0; <<>> is 0.
Base == 2 ^ 10

Max(a, b) == IF a < b THEN b ELSE a

RECURSIVE Big(_)
Big(n) == IF n = 0 THEN <<>> ELSE <<n % Base>> \o Big(n \div Base)

RECURSIVE Strip(_)
Strip(a) ==
    IF a = <<>> THEN <<>>
    ELSE IF a[Len(a)] = 0 THEN Strip(SubSeq(a, 1, Len(a) - 1)) ELSE a

Digit(a, i) == IF i <= Len(a) THEN a[i] ELSE 0

BigAdd(a, b) ==
    LET n == Max(Len(a), Len(b)) + 1
        carry[i \in 0..n] ==
            IF i = 0 THEN 0 ELSE (Digit(a, i) + Digit(b, i) + carry[i - 1]) \div Base
    IN  Strip([i \in 1..n |-> (Digit(a, i) + Digit(b, i) + carry[i - 1]) % Base])

\* a - b for a >= b.
BigSub(a, b) ==
    LET n == Len(a)
        borrow[i \in 0..n] ==
            IF i = 0 THEN 0
            ELSE IF Digit(a, i) - Digit(b, i) - borrow[i - 1] < 0 THEN 1 ELSE 0
    IN  Strip([i \in 1..n |-> (Base + Digit(a, i) - Digit(b, i) - borrow[i - 1]) % Base])

BigLess(a, b) ==
    \/ Len(a) < Len(b)
    \/ /\ Len(a) = Len(b)
       /\ \E i \in 1..Len(a) :
             /\ a[i] < b[i]
             /\ \A j \in (i + 1)..Len(a) : a[j] = b[j]

\* a * d for a machine-sized d of at most 20 bits.
BigMulSmall(a, d) ==
    LET n == Len(a) + 2
        carry[i \in 0..n] ==
            IF i = 0 THEN 0 ELSE (Digit(a, i) * d + carry[i - 1]) \div Base
    IN  Strip([i \in 1..n |-> (Digit(a, i) * d + carry[i - 1]) % Base])

RECURSIVE BigMul(_, _)
BigMul(a, b) ==
    IF a = <<>> \/ b = <<>> THEN <<>>
    ELSE BigAdd(BigMulSmall(a, b[1]), Strip(<<0>> \o BigMul(a, Tail(b))))

\* Quotient and remainder of a by a machine-sized d of at most 20 bits.
BigDivSmall(a, d) ==
    LET n == Len(a)
        rest[i \in 1..(n + 1)] ==
            IF i = n + 1 THEN 0 ELSE (rest[i + 1] * Base + a[i]) % d
    IN  [q |-> Strip([i \in 1..n |-> (rest[i + 1] * Base + a[i]) \div d]),
         r |-> rest[1]]

RECURSIVE Shl(_, _)
Shl(a, k) ==
    IF k = 0 THEN a
    ELSE LET s == Min(k, 10) IN Shl(BigMulSmall(a, 2 ^ s), k - s)

RECURSIVE Shr(_, _)
Shr(a, k) ==
    IF k = 0 THEN a
    ELSE LET s == Min(k, 10) IN Shr(BigDivSmall(a, 2 ^ s).q, k - s)

\* The bits of a machine-sized number.
RECURSIVE SmallBitLen(_)
SmallBitLen(n) == IF n = 0 THEN 0 ELSE 1 + SmallBitLen(n \div 2)

\* The bits of a: ten for each digit below the highest.
BitLen(a) == IF a = <<>> THEN 0 ELSE 10 * (Len(a) - 1) + SmallBitLen(a[Len(a)])

\* The zero bits at the low end of a machine-sized number that is not 0.
RECURSIVE SmallZeros(_)
SmallZeros(n) == IF n % 2 = 1 THEN 0 ELSE 1 + SmallZeros(n \div 2)

BigOdd(a) == a # <<>> /\ a[1] % 2 = 1

\* The one representation of the value m * 2^e.
RECURSIVE Canon(_, _)
Canon(m, e) ==
    IF m = <<>> THEN [m |-> <<>>, e |-> 0]
    ELSE IF m[1] = 0 THEN Canon(Tail(m), e + 10)
    ELSE LET z == SmallZeros(m[1]) IN [m |-> Shr(m, z), e |-> e + z]

\* The f64 nearest to m * 2^e, ties to the even significand.
RoundToF64(m, e) ==
    LET k == BitLen(m) - F64_MANTISSA_DIGITS
    IN  IF k <= 0 THEN Canon(m, e)
        ELSE LET q == Shr(m, k)
                 rem == BigSub(m, Shl(q, k))
                 half == Shl(Big(1), k - 1)
                 up == BigLess(half, rem) \/ (rem = half /\ BigOdd(q))
             IN  Canon(IF up THEN BigAdd(q, Big(1)) ELSE q, e + k)

\* `n as f64` of an unsigned integer.
F64OfInt(n) == RoundToF64(Big(n), 0)

F64Zero == F64OfInt(0)

\* x * y in f64.
F64Mul(x, y) == RoundToF64(BigMul(x.m, y.m), x.e + y.e)

\* x + y in f64.
F64Add(x, y) ==
    LET e == Min(x.e, y.e)
    IN  RoundToF64(BigAdd(Shl(x.m, x.e - e), Shl(y.m, y.e - e)), e)

\* x / d in f64, for a divisor that is a whole number of at most 20 bits: the
\* divisors of the source are 1_000_000.0 and the connection count.  The
\* quotient is taken to 55 bits or more and a last bit records a remainder.
F64Div(x, d) ==
    IF x.m = <<>> THEN F64Zero
    ELSE LET s == Max(0, F64_MANTISSA_DIGITS + 22 - BitLen(x.m))
             dv == BigDivSmall(Shl(x.m, s), d)
             sticky == IF dv.r = 0 THEN 0 ELSE 1
         IN  RoundToF64(BigAdd(BigMulSmall(dv.q, 2), Big(sticky)), x.e - s - 1)

\* |x - y| <= ulps * 2^-53 * max(x, y), in exact arithmetic.
F64Within(x, y, ulps) ==
    LET e == Min(x.e, y.e)
        a == Shl(x.m, x.e - e)
        b == Shl(y.m, y.e - e)
        hi == IF BigLess(a, b) THEN b ELSE a
        lo == IF BigLess(a, b) THEN a ELSE b
    IN  ~ BigLess(BigMulSmall(hi, ulps), Shl(BigSub(hi, lo), F64_MANTISSA_DIGITS))

\* `// Running average` without the weight of the average so far.
RunningAverageUnweighted(avg, count, duration_ms) ==
    F64Add(avg, F64Div(duration_ms, count))

\* `// Running average`: avg * ((n - 1.0) / n) + duration_ms / n, n the count
\* as f64.
RunningAverage(avg, count, duration_ms) ==
    F64Add(F64Mul(avg, F64Div(F64OfInt(count - 1), count)),
           F64Div(duration_ms, count))

\* EndpointMetrics::default().
DefaultEndpointMetrics ==
    [total_bytes_sent |-> 0, total_bytes_recv |-> 0, total_packets_sent |-> 0,
     total_packets_recv |-> 0, total_retransmits |-> 0, connection_count |-> 0,
     avg_duration_ms |-> F64Zero]

\* A grouping key that tells the source ports apart.
EndpointOfWithSource(key) ==
    [ip |-> Swap32(key.dst_ip), port |-> key.dst_port + key.src_port]

\* (Ipv4Addr::from(key.dst_ip.to_be()), key.dst_port).
EndpointOf(key) == [ip |-> Swap32(key.dst_ip), port |-> key.dst_port]

\* The body of the loop of aggregate_by_destination for one (key, metrics).
Accumulate(agg, key, metrics) ==
    LET endpoint == EndpointOf(key)
        entry == IF endpoint \in DOMAIN agg THEN agg[endpoint] ELSE DefaultEndpointMetrics
        count == entry.connection_count + 1
        duration_ms ==
            F64Div(F64OfInt(metrics.last_seen_ns - metrics.start_ns), NS_PER_MS)
        new == [total_bytes_sent |-> entry.total_bytes_sent + metrics.bytes_sent,
                total_bytes_recv |-> entry.total_bytes_recv + metrics.bytes_recv,
                total_packets_sent |-> entry.total_packets_sent + metrics.packets_sent,
                total_packets_recv |-> entry.total_packets_recv + metrics.packets_recv,
                total_retransmits |-> entry.total_retransmits + metrics.retransmits,
                connection_count |-> count,
                avg_duration_ms |->
                    RunningAverage(entry.avg_duration_ms, count, duration_ms)]
    IN  [x \in (DOMAIN agg) \cup {endpoint} |-> IF x = endpoint THEN new ELSE agg[x]]

\* aggregate_by_destination over the records of a sequence, in its order.
RECURSIVE aggregate_by_destination(_)
aggregate_by_destination(input) ==
    IF input = <<>> THEN EmptyTable
    ELSE LET n == Len(input)
         IN  Accumulate(aggregate_by_destination(SubSeq(input, 1, n - 1)),
                        input[n].key, input[n].metrics)

\* A record as the table holds it after sends packets, lasting ms milliseconds.
RecordOf(saddr, sport, daddr, dport, sends, ms) ==
    [key |-> ConnKey(saddr, daddr, sport, dport),
     metrics |-> [bytes_sent |-> 500 * sends, bytes_recv |-> 0,
                  packets_sent |-> sends, packets_recv |-> sends,
                  start_ns |-> TickNs, last_seen_ns |-> TickNs + ms * NS_PER_MS,
                  retransmits |-> sends - 1]]

\* The records the inputs are drawn from: four connections to one
\* destination, of 1, 2, 3 and 4 ms and from two hosts, and one connection
\* to another destination.
RecordPool ==
    { RecordOf(Ip(10, 0, 0, 1), 5000, Ip(93, 184, 216, 34), 443, 1, 1),
      RecordOf(Ip(10, 0, 0, 1), 5001, Ip(93, 184, 216, 34), 443, 2, 2),
      RecordOf(Ip(10, 0, 0, 3), 5000, Ip(93, 184, 216, 34), 443, 3, 3),
      RecordOf(Ip(10, 0, 0, 3), 5003, Ip(93, 184, 216, 34), 443, 1, 4),
      RecordOf(Ip(10, 0, 0, 1), 5004, Ip(10, 0, 0, 2), 80, 1, 1) }

\* The inputs: the records of a set, in any order.
Inputs ==
    { s \in UNION { [1..n -> RecordPool] : n \in 0..MaxRecords } :
        \A i, j \in 1..Len(s) : i # j => s[i] # s[j] }

\* The orderings of the records of a sequence.
Orderings(s) ==
    { t \in [1..Len(s) -> { s[i] : i \in 1..Len(s) }] :
        \A i, j \in 1..Len(s) : i # j => t[i] # t[j] }

AggInit ==
    /\ connections = EmptyTable
    /\ config = {}
    /\ now = 0
    /\ last = NoProbe
    /\ hist = [c \in Conns |-> {}]
    /\ cpu = IdleCpus
    /\ ran = NothingRan
    /\ MainIdle("off")
    /\ records \in Inputs
    /\ pos = 0
    /\ aggregated = EmptyTable
    /\ LayoutIdle

\* One turn of `for (key, metrics) in connections`.
AggregateStep ==
    /\ pos < Len(records)
    /\ pos' = pos + 1
    /\ aggregated' = Accumulate(aggregated, records[pos + 1].key, records[pos + 1].metrics)
    /\ UNCHANGED <<records, kernelVars, mainVars, layoutVars>>

AggNext == AggregateStep

SpecAggregate == AggInit /\ [][AggNext]_vars

\* The for loop is over: aggregated is what the function returns.
Returned == pos = Len(records)

\* The records of the input share one destination.
OneDestination ==
    \A i, j \in 1..Len(records) : EndpointOf(records[i].key) = EndpointOf(records[j].key)

\* The sums and the count of an aggregate, without its average.
TotalsOf(m) ==
    [x \in DOMAIN m |-> [m[x] EXCEPT !.avg_duration_ms = F64Zero]]

----------------------------------------------------------------------------
(* SpecLayout: the #[repr(C)] layout of the records of sidecar-common.      *)
(* The compiler places the fields in their declared order, each at the next *)
(* offset that is a multiple of its alignment, and rounds the size of the   *)
(* record up to a multiple of its largest alignment.                        *)

\* SpecLayout: the longest list of scalar fields laid out besides the
\* records of the source.
MaxFields == 3

\* u8, u16, u32, u64: size and alignment are the width in bytes.
Scalar(bytes) == [size |-> bytes, align |-> bytes]

Scalars == { Scalar(1), Scalar(2), Scalar(4), Scalar(8) }

\* [t; n].
ArrayOf(t, n) == [size |-> t.size * n, align |-> t.align]

Field(name, t) == [name |-> name, size |-> t.size, align |-> t.align]

AlignUp(offset, align) == ((offset + align - 1) \div align) * align

\* One field placed after what is there: offset is the end of the field,
\* declared the bytes of the fields alone.
PlaceOne(l, f) ==
    [offset |-> AlignUp(l.offset, f.align) + f.size,
     align |-> Max(l.align, f.align),
     declared |-> l.declared + f.size]

RECURSIVE PlaceAll(_)
PlaceAll(fields) ==
    IF fields = <<>> THEN LayoutStart
    ELSE PlaceOne(PlaceAll(SubSeq(fields, 1, Len(fields) - 1)), fields[Len(fields)])

\* size_of of a record with these fields.
SizeOf(fields) == AlignUp(PlaceAll(fields).offset, PlaceAll(fields).align)

\* A record used as the type of a field.
StructOf(fields) == [size |-> SizeOf(fields), align |-> PlaceAll(fields).align]

ConnKeyFields ==
    << Field("src_ip", Scalar(4)), Field("dst_ip", Scalar(4)),
       Field("src_port", Scalar(2)), Field("dst_port", Scalar(2)) >>

ConnMetricsFields ==
    << Field("bytes_sent", Scalar(8)), Field("bytes_recv", Scalar(8)),
       Field("packets_sent", Scalar(8)), Field("packets_recv", Scalar(8)),
       Field("start_ns", Scalar(8)), Field("last_seen_ns", Scalar(8)),
       Field("retransmits", Scalar(4)), Field("_padding", Scalar(4)) >>

HttpEventFields ==
    << Field("conn", StructOf(ConnKeyFields)), Field("latency_ns", Scalar(8)),
       Field("status_code", Scalar(2)), Field("method", Scalar(1)),
       Field("_padding", Scalar(1)), Field("path_hash", Scalar(4)) >>

ProcessInfoFields ==
    << Field("pid", Scalar(4)), Field("tgid", Scalar(4)), Field("uid", Scalar(4)),
       Field("gid", Scalar(4)), Field("cgroup_id", Scalar(8)) >>

SidecarConfigFields ==
    << Field("target_pid", Scalar(4)), Field("target_cgroup", Scalar(8)),
       Field("target_ports", ArrayOf(Scalar(2), 8)),
       Field("num_target_ports", Scalar(1)), Field("enable_http", Scalar(1)),
       Field("debug_mode", Scalar(1)), Field("_padding", Scalar(1)) >>

\* The records of sidecar-common by name.
SharedRecords ==
    [ConnKey |-> ConnKeyFields, ConnMetrics |-> ConnMetricsFields,
     HttpEvent |-> HttpEventFields, ProcessInfo |-> ProcessInfoFields,
     SidecarConfig |-> SidecarConfigFields]

\* What is laid out: a record of the source, or up to MaxFields scalars.
LayoutInputs ==
    { [name |-> n, fields |-> SharedRecords[n]] : n \in DOMAIN SharedRecords }
    \cup { [name |-> "scalars", fields |-> [i \in 1..Len(s) |-> Field("f", s[i])]] :
             s \in UNION { [1..n -> Scalars] : n \in 0..MaxFields } }

LayoutInit ==
    /\ connections = EmptyTable
    /\ config = {}
    /\ now = 0
    /\ last = NoProbe
    /\ hist = [c \in Conns |-> {}]
    /\ cpu = IdleCpus
    /\ ran = NothingRan
    /\ MainIdle("off")
    /\ AggIdle
    /\ \E input \in LayoutInputs :
          layout = [name |-> input.name, fields |-> input.fields, placed |-> 0,
                    sofar |-> LayoutStart, size |-> {}]

\* The next declared field gets its offset.
PlaceField ==
    /\ layout.size = {}
    /\ layout.placed < Len(layout.fields)
    /\ layout' = [layout EXCEPT !.placed = @ + 1,
                                !.sofar = PlaceOne(@, layout.fields[layout.placed + 1])]
    /\ UNCHANGED <<kernelVars, mainVars, aggVars>>

\* After the last field the size is rounded up to the alignment.
FinishRecord ==
    /\ layout.size = {}
    /\ layout.placed = Len(layout.fields)
    /\ layout' = [layout EXCEPT !.size = {AlignUp(layout.sofar.offset, layout.sofar.align)}]
    /\ UNCHANGED <<kernelVars, mainVars, aggVars>>

LayoutNext == PlaceField \/ FinishRecord

SpecLayout == LayoutInit /\ [][LayoutNext]_vars

----------------------------------------------------------------------------
(* Claims.  An event "for a 4-tuple" is an invocation on the readable socket  *)
(* (or trace record) of the connection with that 4-tuple.                     *)

Full == Cardinality(DOMAIN connections) = MAX_ENTRIES

TargetPid == The(config).target_pid

\* C1: at the close of a connection whose connect was traced and accepted by
\* the table, the record on-close reads has bytes_sent equal to the sum of the
\* sizes and packets_sent equal to the number of the sends traced since that
\* connect, the duration it computes is the close time minus the connect time
\* (logged in whole milliseconds), and no entry is left for the key.
C1_ConnectSendsClose ==
    [][\A pid \in Pids, c \in Conns :
          (hist[c] # {} /\ trace_tcp_close(pid, GoodSock(c)))
          => /\ last'.snap # {}
             /\ The(last'.snap).bytes_sent = The(hist[c]).sum
             /\ The(last'.snap).packets_sent = The(hist[c]).n
             /\ last'.duration_ns = now - The(hist[c]).t0
             /\ last'.dur_ms = (now - The(hist[c]).t0) \div NS_PER_MS
             /\ KeyOf(c) \notin DOMAIN connections']_vars

\* connect at 0, sends of 1000 and 500 bytes, close a millisecond and a half later.
C1_Witness ==
    /\ last.op = "close"
    /\ last.snap # {}
    /\ The(last.snap).bytes_sent = 1500
    /\ The(last.snap).packets_sent = 2
    /\ last.duration_ns = TickNs
    /\ last.dur_ms = 1
    /\ \A k \in last.key : k \notin DOMAIN connections

\* C2: with target_pid = P, P # 0, an on-connect raised by a process whose
\* pid is not P leaves the table unchanged.
C2_OtherPidCreatesNoEntry ==
    [][\A pid \in Pids, sock \in SockArgs :
          (config # {} /\ TargetPid # 0 /\ pid # TargetPid
           /\ trace_tcp_connect(pid, sock))
          => connections' = connections]_vars

C2_Witness ==
    /\ config # {}
    /\ TargetPid # 0
    /\ last = [NoProbe EXCEPT !.op = "connect"]
    /\ DOMAIN connections = {}

\* C3 as claimed: with target_pid = 0 an on-connect from any pid creates an
\* entry for the connection's 4-tuple.
C3_AnyPidCreatesEntry ==
    [][\A pid \in Pids, c \in Conns :
          (config # {} /\ TargetPid = 0 /\ trace_tcp_connect(pid, GoodSock(c)))
          => KeyOf(c) \in DOMAIN connections']_vars

\* C3 as amended: with target_pid = 0 an on-connect from any pid creates an
\* entry for the connection's 4-tuple when the table holds the key already or
\* holds fewer entries than its capacity.
C3_AnyPidCreatesEntryIfRoom ==
    [][\A pid \in Pids, c \in Conns :
          (config # {} /\ TargetPid = 0 /\ HasRoomFor(KeyOf(c))
           /\ trace_tcp_connect(pid, GoodSock(c)))
          => KeyOf(c) \in DOMAIN connections']_vars

C3_Witness ==
    /\ config # {}
    /\ TargetPid = 0
    /\ last.op = "connect"
    /\ last.ret = 0
    /\ last.key # {}
    /\ last.key \subseteq DOMAIN connections

\* C4: every entry of the table has last_seen_ns >= start_ns.
C4_LastSeenNotBeforeStart ==
    \A k \in DOMAIN connections :
        connections[k].last_seen_ns >= connections[k].start_ns

C4_Witness ==
    \E k \in DOMAIN connections :
        /\ connections[k].last_seen_ns > connections[k].start_ns
        /\ connections[k].packets_sent + connections[k].packets_recv > 0

NonDecreasing(m, n) ==
    /\ n.bytes_sent >= m.bytes_sent
    /\ n.bytes_recv >= m.bytes_recv
    /\ n.packets_sent >= m.packets_sent
    /\ n.packets_recv >= m.packets_recv
    /\ n.retransmits >= m.retransmits

\* The step is an on-connect for key k that passes the filter.
ConnectInserts(k) ==
    \E pid \in Pids, c \in Conns :
        /\ KeyOf(c) = k
        /\ PassesFilter(pid)
        /\ trace_tcp_connect(pid, GoodSock(c))

\* C5 as claimed: while a key stays in the table none of its five counters
\* decreases from one state to the next.
C5_CountersNeverDecrease ==
    [][\A k \in (DOMAIN connections) \cap (DOMAIN connections') :
          NonDecreasing(connections[k], connections'[k])]_vars

\* C5 as amended: while a key stays in the table none of its five counters
\* decreases from one state to the next, except at an on-connect for that key
\* that passes the filter: it replaces the record by a fresh one, all zero.
C5_CountersNeverDecreaseUnlessReconnect ==
    [][\A k \in (DOMAIN connections) \cap (DOMAIN connections') :
          IF ConnectInserts(k)
          THEN connections'[k] = FreshMetrics(now)
          ELSE NonDecreasing(connections[k], connections'[k])]_vars

C5_Witness ==
    /\ last.op = "send"
    /\ last.key # {}
    /\ \E k \in last.key \cap DOMAIN connections :
          /\ connections[k].packets_sent = 2
          /\ connections[k].bytes_sent = 1500

\* C6: the table never holds more entries than its capacity, and when it is
\* full an on-connect that passes the filter for a key it does not hold
\* returns a non-zero status, leaves every entry as it was and leaves the key
\* absent.
C6_FullTableRefusesNewKey ==
    /\ [](Cardinality(DOMAIN connections) <= MAX_ENTRIES)
    /\ [][\A pid \in Pids, c \in Conns :
             (Full /\ KeyOf(c) \notin DOMAIN connections /\ PassesFilter(pid)
              /\ trace_tcp_connect(pid, GoodSock(c)))
             => /\ last'.ret # 0
                /\ connections' = connections
                /\ KeyOf(c) \notin DOMAIN connections']_vars

C6_Witness ==
    /\ Full
    /\ last.op = "connect"
    /\ last.ret = 1
    /\ last.key # {}
    /\ \A k \in last.key : k \notin DOMAIN connections
    /\ \E k \in DOMAIN connections : connections[k].packets_sent > 0

\* C7: an on-send for a 4-tuple that has no entry leaves the table unchanged
\* and returns success.
C7_SendWithoutEntryIsIgnored ==
    [][\A pid \in Pids, c \in Conns, s \in Sizes :
          (KeyOf(c) \notin DOMAIN connections
           /\ trace_tcp_sendmsg(pid, GoodSock(c), {s}))
          => /\ connections' = connections
             /\ last'.ret = 0]_vars

C7_Witness ==
    /\ last.op = "send"
    /\ last.ret = 0
    /\ last.key # {}
    /\ \A k \in last.key : k \notin DOMAIN connections
    /\ DOMAIN connections # {}

\* C8: an on-retransmit for a 4-tuple with no entry leaves the table
\* unchanged; for a 4-tuple with an entry it adds one to that entry's
\* retransmits and changes nothing else.
C8_RetransmitCountsOnlyTrackedKeys ==
    [][\A c \in Conns :
          trace_tcp_retransmit(GoodTrace(c))
          => IF KeyOf(c) \in DOMAIN connections
             THEN connections' =
                    [connections EXCEPT ![KeyOf(c)].retransmits = @ + 1]
             ELSE connections' = connections]_vars

C8_Witness ==
    /\ last.op = "retransmit"
    /\ last.key # {}
    /\ \E k \in last.key \cap DOMAIN connections :
          /\ connections[k].retransmits = 1
          /\ connections[k].last_seen_ns < now

\* C9: after an on-close on a readable socket the table holds no entry for
\* its 4-tuple, whether or not it held one, and every other entry is as it was.
C9_CloseRemovesKey ==
    [][\A pid \in Pids, c \in Conns :
          trace_tcp_close(pid, GoodSock(c))
          => /\ KeyOf(c) \notin DOMAIN connections'
             /\ DOMAIN connections' = (DOMAIN connections) \ {KeyOf(c)}
             /\ \A j \in DOMAIN connections' : connections'[j] = connections[j]]_vars

\* A close for a key the table did not hold, another entry staying in place.
C9_Witness ==
    /\ last.op = "close"
    /\ last.ret = 0
    /\ last.key # {}
    /\ last.snap = {}
    /\ DOMAIN connections # {}

\* C10: once one on-send and one on-receive have run on the tracked entry,
\* their loads and stores interleaved in any order, bytes_sent has grown by
\* the size sent, packets_sent by one and packets_recv by one.
C10_SendAndReceiveDoNotInterfere ==
    (RaceQuiet /\ ran.sends = 1 /\ ran.recvs = 1)
    => /\ connections[RaceKey].bytes_sent = ran.base.bytes_sent + ran.bytes
       /\ connections[RaceKey].packets_sent = ran.base.packets_sent + 1
       /\ connections[RaceKey].packets_recv = ran.base.packets_recv + 1

\* Both have run to their end, one having started while the other was running.
C10_Witness ==
    /\ RaceQuiet
    /\ ran.sends = 1
    /\ ran.recvs = 1
    /\ ran.retx = 0
    /\ ran.overlap
    /\ connections[RaceKey].packets_recv = ran.base.packets_recv + 1
    /\ connections[RaceKey].bytes_sent = ran.base.bytes_sent + 1000

\* C11: once every probe racing on the tracked entry has returned, each counter
\* of the entry has grown by what the invocations that ran add up to, as it
\* would when they ran one after the other in any order.
C11_RacingUpdatesAreSerializable ==
    RaceQuiet
    => /\ connections[RaceKey].bytes_sent = ran.base.bytes_sent + ran.bytes
       /\ connections[RaceKey].packets_sent = ran.base.packets_sent + ran.sends
       /\ connections[RaceKey].packets_recv = ran.base.packets_recv + ran.recvs
       /\ connections[RaceKey].retransmits = ran.base.retransmits + ran.retx

\* C19 as claimed: while the configuration slot has never been written, an
\* on-connect from any pid creates the entry of its 4-tuple, and an on-send or
\* on-receive from any pid updates the entry of a tracked 4-tuple.
C19_UnwrittenSlotTracesAll ==
    [][\A pid \in Pids, c \in Conns :
          config = {}
          => /\ trace_tcp_connect(pid, GoodSock(c))
                => KeyOf(c) \in DOMAIN connections'
             /\ \A s \in Sizes :
                   (KeyOf(c) \in DOMAIN connections
                    /\ trace_tcp_sendmsg(pid, GoodSock(c), {s}))
                   => connections' = [connections EXCEPT
                                        ![KeyOf(c)] = SendUpdate(@, s, now)]
             /\ (KeyOf(c) \in DOMAIN connections /\ trace_tcp_recvmsg(pid, GoodSock(c)))
                => connections' = [connections EXCEPT ![KeyOf(c)] = RecvUpdate(@, now)]]_vars

\* C19 as amended: the same, the on-connect creating the entry when the table
\* holds the key already or holds fewer entries than its capacity.
C19_UnwrittenSlotTracesAllIfRoom ==
    [][\A pid \in Pids, c \in Conns :
          config = {}
          => /\ (HasRoomFor(KeyOf(c)) /\ trace_tcp_connect(pid, GoodSock(c)))
                => /\ KeyOf(c) \in DOMAIN connections'
                   /\ connections'[KeyOf(c)] = FreshMetrics(now)
             /\ \A s \in Sizes :
                   (KeyOf(c) \in DOMAIN connections
                    /\ trace_tcp_sendmsg(pid, GoodSock(c), {s}))
                   => connections' = [connections EXCEPT
                                        ![KeyOf(c)] = SendUpdate(@, s, now)]
             /\ (KeyOf(c) \in DOMAIN connections /\ trace_tcp_recvmsg(pid, GoodSock(c)))
                => connections' = [connections EXCEPT ![KeyOf(c)] = RecvUpdate(@, now)]]_vars

\* The slot still unwritten, an entry created and a send counted on it.
C19_Witness ==
    /\ config = {}
    /\ last.op = "send"
    /\ last.key # {}
    /\ \E k \in last.key \cap DOMAIN connections :
          /\ connections[k].packets_sent = 1
          /\ connections[k].packets_recv = 1

\* The ports the configuration slot lists.
TargetPorts == { The(config).target_ports[i] : i \in 1..The(config).num_target_ports }

\* C20: with a non-empty target port list in the slot, an on-connect for a
\* connection neither of whose ports is listed leaves the table unchanged.
C20_UnlistedPortsCreateNoEntry ==
    [][\A pid \in Pids, c \in Conns :
          (config # {} /\ The(config).num_target_ports > 0
           /\ c.sport \notin TargetPorts /\ c.dport \notin TargetPorts
           /\ trace_tcp_connect(pid, GoodSock(c)))
          => connections' = connections]_vars

\* C12: a collection cycle that ends with an iteration error leaves the
\* registry as it was when the cycle began.
C12_FailedCycleLeavesExportsAsBefore ==
    [][CollectFail => registry' = iter.start]_vars

\* C13: at the end of a successful collection cycle the five exported totals
\* of the labels of every connection read in it equal the totals read from
\* the table for that connection.
C13_ExportedTotalsEqualTableTotals ==
    [][CollectEnd
       => \A k \in DOMAIN iter.seen :
             LET child == registry'.children[LabelsOf(k)]
                 m == iter.seen[k]
             IN  /\ child.bytes_sent = m.bytes_sent
                 /\ child.bytes_recv = m.bytes_recv
                 /\ child.packets_sent = m.packets_sent
                 /\ child.packets_recv = m.packets_recv
                 /\ child.retransmits = m.retransmits]_vars

\* C14: answering a request changes neither the registry nor the table, and a
\* /metrics request that follows another with no step of a collection cycle in
\* between gets the same body.
C14_ServingChangesNothing ==
    [][\A path \in Paths :
          Serve(path)
          => /\ registry' = registry
             /\ connections' = connections
             /\ (path = "/metrics" /\ served # {})
                => The(served').body = The(served).body]_vars

\* A second /metrics response in a row, after a cycle that exported an entry.
C14_Witness ==
    /\ served # {}
    /\ The(served).again
    /\ DOMAIN registry.children # {}
    /\ registry.active = {1}
    /\ Len(The(served).body.families) = Len(Families)

\* C15: when the load or attach of one of the five programs has failed,
\* main() has returned, no server was spawned, no cycle has run and nothing
\* stays attached; and whenever the server is up or the loop runs, all five
\* programs are attached.
C15_AttachFailureEndsStartup ==
    /\ failedAt \in AllPrograms \cup {"program_load"}
       => at = "failed" /\ ~server /\ cycles = 0 /\ attached = {}
    /\ (server \/ at \in {"select", "collecting"}) => attached = AllPrograms

\* The third program failed to attach after two were attached.
C15_Witness ==
    /\ failedAt = "trace_tcp_recvmsg"
    /\ at = "failed"
    /\ ~server
    /\ cycles = 0

C17_FailedCycleKeepsLoopRunning ==
    /\ [][CollectFail
          => /\ at' = "select"
             /\ lastCycle'.result = "err"
             /\ attached' = attached
             /\ server' = server]_vars
    /\ []((at = "select" /\ cycles < MaxCycles) => ENABLED StartCycle)

\* A cycle running after the one before it failed.
C17_Witness ==
    /\ at = "collecting"
    /\ lastCycle.result = "err"
    /\ lastCycle.n = 1
    /\ cycles = 2
    /\ iter.count = 1

\* The most two orderings of n records may differ in their average, in units
\* of 2^-53 of the larger: three roundings for each record folded, in each.
AverageTolerance(n) == 8 * n

\* C18 (as claimed): for records that share one destination,
\* aggregate_by_destination returns the same summed totals, the same
\* connection count and the same average duration for every ordering of the
\* input records.
C18_EveryOrderingSameAggregate ==
    (Returned /\ OneDestination)
    => \A t \in Orderings(records) : aggregate_by_destination(t) = aggregated

\* C18 (amended): for records that share one destination,
\* aggregate_by_destination returns the same summed totals and the same
\* connection count for every ordering of the input records, and average
\* durations that differ between two orderings by at most 8 * n * 2^-53 of
\* the larger one, n the number of records.
C18_EveryOrderingSameTotalsCloseAverage ==
    (Returned /\ OneDestination)
    => \A t \in Orderings(records) :
          LET other == aggregate_by_destination(t)
          IN  /\ TotalsOf(other) = TotalsOf(aggregated)
              /\ \A x \in DOMAIN aggregated :
                    F64Within(other[x].avg_duration_ms, aggregated[x].avg_duration_ms,
                              AverageTolerance(Len(records)))

\* Three records of one destination were aggregated, and another ordering of
\* them gives an average that differs in its last bit.
C18_Witness ==
    /\ Returned
    /\ OneDestination
    /\ Len(records) = 3
    /\ \A x \in DOMAIN aggregated : aggregated[x].connection_count = 3
    /\ \E t \in Orderings(records) :
          /\ TotalsOf(aggregate_by_destination(t)) = TotalsOf(aggregated)
          /\ aggregate_by_destination(t) # aggregated

\* C21: under the C layout rules every record of sidecar-common has a size
\* equal to the sum of the sizes of its declared fields (no padding between
\* or after them); ConnKey occupies 12 bytes and ConnMetrics 48 bytes.
C21_SizeIsSumOfDeclaredFields ==
    (layout.name \in DOMAIN SharedRecords /\ layout.size # {})
    => /\ The(layout.size) = layout.sofar.declared
       /\ layout.name = "ConnKey" => The(layout.size) = 12
       /\ layout.name = "ConnMetrics" => The(layout.size) = 48

\* C22: the startup steps happen in a fixed order.  The object is loaded only
\* with the memlock limit raised, and a failure to raise it ends main() with
\* nothing loaded; a probe is attached only with the configuration written
\* and only once it is loaded; a collection cycle runs only with all the
\* probes attach_programs attaches attached; and after BpfLogger::init,
\* failed or not, main() goes on to configure (unless a Ctrl+C ends the
\* process).
C22_StartupStepsInOrder ==
    /\ [](sys.object => sys.memlock = "infinity")
    /\ [](failedAt = "memlock" => (at = "failed" /\ ~sys.object /\ sys.loaded = {}))
    /\ []((sys.loaded # {} \/ attached # {}) => (config # {} /\ sys.object))
    /\ [](attached \subseteq sys.loaded)
    /\ [](at = "collecting" => attached = AllPrograms)
    /\ [][(at \in {"logger", "warn"} /\ at' # at)
             => at' \in {"warn", "configure", "killed"}]_vars

\* The first collection cycle runs, every step of the startup behind it.
C22_Witness ==
    /\ at = "collecting"
    /\ cycles = 1
    /\ sys = [memlock |-> "infinity", object |-> TRUE, loaded |-> AllPrograms]
    /\ attached = AllPrograms
    /\ config # {}

\* C27: a Ctrl+C delivered once the loop has started, while the loop waits in
\* select! or while a collection cycle runs, is never lost: as long as the
\* loop has not taken the shutdown branch the signal is still there for it.
C27_SignalIsNeverLost ==
    (delivered /\ at \in {"select", "collecting"}) => sigint

\* The sockets and trace records of which a raw read fails.
FaultySocks == { sock \in SockArgs : sock.present /\ sock.failAt # 0 }

FaultyTraces == { tp \in TraceArgs : tp.failAt # 0 }

\* The invocation returned a non-zero status and left what the probes act
\* on (the table, the configuration) as it was.
Aborted ==
    /\ last'.ret # 0
    /\ connections' = connections
    /\ config' = config
    /\ hist' = hist

\* C23: a probe invocation in which a raw read of the socket or of the trace
\* record fails (on-connect, on-send and on-receive get to the read when the
\* filter passes and the arguments are there; on-close and on-retransmit
\* always) returns a non-zero status and leaves the table exactly as it was,
\* so that what follows is what would have followed without it.
C23_FailedReadAbortsInvocation ==
    [][/\ \A pid \in Pids, sock \in FaultySocks :
             /\ (should_trace(pid) /\ trace_tcp_connect(pid, sock)) => Aborted
             /\ \A sz \in Sizes :
                   (should_trace(pid) /\ trace_tcp_sendmsg(pid, sock, {sz})) => Aborted
             /\ (should_trace(pid) /\ trace_tcp_recvmsg(pid, sock)) => Aborted
             /\ trace_tcp_close(pid, sock) => Aborted
       /\ \A tp \in FaultyTraces : trace_tcp_retransmit(tp) => Aborted]_vars

\* An on-retransmit failed on its trace record (nothing else makes it fail)
\* with a counted entry in the table.
C23_Witness ==
    /\ last.op = "retransmit"
    /\ last.ret # 0
    /\ \E k \in DOMAIN connections : connections[k].packets_sent > 0

\* C24: an on-connect that passes the filter and whose insert the table
\* accepts leaves for its 4-tuple a record with start_ns = last_seen_ns = the
\* current time and the five counters zero, whatever the table held for the
\* key before: a record already there is replaced.
C24_ConnectLeavesFreshRecord ==
    [][\A pid \in Pids, c \in Conns :
          (should_trace(pid) /\ trace_tcp_connect(pid, GoodSock(c)) /\ last'.ret = 0)
          => /\ KeyOf(c) \in DOMAIN connections'
             /\ connections'[KeyOf(c)] =
                   [bytes_sent |-> 0, bytes_recv |-> 0, packets_sent |-> 0,
                    packets_recv |-> 0, retransmits |-> 0,
                    start_ns |-> now, last_seen_ns |-> now]]_vars

\* An accepted on-connect after the clock has moved, under a pid filter.
C24_Witness ==
    /\ last.op = "connect"
    /\ last.ret = 0
    /\ now > 0
    /\ \E k \in last.key \cap DOMAIN connections :
          /\ connections[k].start_ns = now
          /\ connections[k].packets_sent = 0
    /\ config # {}
    /\ TargetPid # 0

\* The destination (address, port) of the i-th input record, as its key has it.
DestinationAt(i) == <<records[i].key.dst_ip, records[i].key.dst_port>>

\* The input records with the destination of the i-th.
SameDestination(i) == { j \in 1..Len(records) : DestinationAt(j) = DestinationAt(i) }

\* The sum of a field of the metrics over the input records of a set.
RECURSIVE SumField(_, _)
SumField(js, f) ==
    IF js = {} THEN 0
    ELSE LET j == CHOOSE x \in js : TRUE
         IN  records[j].metrics[f] + SumField(js \ {j}, f)

\* C25: aggregate_by_destination returns exactly one group per distinct
\* destination (address, port) of its input; the group's connection_count is
\* the number of input records with that destination and each of its five
\* totals the sum of the field over those records, whatever their source
\* address and source port.
C25_OneGroupPerDestination ==
    Returned
    => /\ Cardinality(DOMAIN aggregated)
             = Cardinality({ DestinationAt(i) : i \in 1..Len(records) })
       /\ \A i \in 1..Len(records) :
             /\ EndpointOf(records[i].key) \in DOMAIN aggregated
             /\ LET group == aggregated[EndpointOf(records[i].key)]
                    same == SameDestination(i)
                IN  /\ group.connection_count = Cardinality(same)
                    /\ group.total_bytes_sent = SumField(same, "bytes_sent")
                    /\ group.total_bytes_recv = SumField(same, "bytes_recv")
                    /\ group.total_packets_sent = SumField(same, "packets_sent")
                    /\ group.total_packets_recv = SumField(same, "packets_recv")
                    /\ group.total_retransmits = SumField(same, "retransmits")

\* Two destinations were aggregated, one of them reached from two hosts.
C25_Witness ==
    /\ Returned
    /\ Cardinality(DOMAIN aggregated) = 2
    /\ \E x \in DOMAIN aggregated : aggregated[x].connection_count = 2
    /\ \E i, j \in 1..Len(records) :
          /\ DestinationAt(i) = DestinationAt(j)
          /\ records[i].key.src_ip # records[j].key.src_ip

\* C26: on-close and on-retransmit do not apply the trace filter.  With
\* target_pid = P, P # 0, an on-close raised by a process whose pid is not P
\* leaves no entry for its 4-tuple and an on-retransmit for a tracked 4-tuple
\* adds one to its retransmits, whereas an on-send or an on-receive raised by
\* a process whose pid is not P leaves the table unchanged.
C26_CloseAndRetransmitAreNotFiltered ==
    [][(config # {} /\ TargetPid # 0)
       => /\ \A pid \in Pids \ {TargetPid}, c \in Conns :
                (last'.op = "close" /\ trace_tcp_close(pid, GoodSock(c)))
                => KeyOf(c) \notin DOMAIN connections'
          /\ \A c \in Conns :
                (last'.op = "retransmit" /\ KeyOf(c) \in DOMAIN connections
                 /\ trace_tcp_retransmit(GoodTrace(c)))
                => connections'[KeyOf(c)].retransmits
                      = connections[KeyOf(c)].retransmits + 1
          /\ \A pid \in Pids \ {TargetPid}, sock \in SockArgs, size \in SizeArgs :
                (last'.op = "send" /\ trace_tcp_sendmsg(pid, sock, size))
                => connections' = connections
          /\ \A pid \in Pids \ {TargetPid}, sock \in SockArgs :
                (last'.op = "recv" /\ trace_tcp_recvmsg(pid, sock))
                => connections' = connections]_vars

\* A close from a process the filter does not select has removed a tracked
\* entry, which counted a retransmission.
C26_Witness ==
    /\ config # {}
    /\ TargetPid # 0
    /\ last.op = "close"
    /\ last.outside
    /\ last.ret = 0
    /\ last.snap # {}
    /\ last.key \cap DOMAIN connections = {}
    /\ \E m \in last.snap : m.retransmits = 1

====
